---- MODULE Spec2Model ----
(***************************************************************************)
(* Go-Image-Store (src/main.go): an HTTP service that keeps image bytes    *)
(* in an S3 bucket and one metadata row per upload in the Postgres table   *)
(* "images".  The handlers createImage, deleteImage, downloadImage and     *)
(* listImages issue their store calls one after the other, without a       *)
(* transaction; net/http runs every request on its own goroutine, so the   *)
(* store calls of different requests interleave.                           *)
(*                                                                         *)
(* One step of the model is one store call of one request together with    *)
(* the handler code that follows it up to the next store call or to the    *)
(* response.  A store call either succeeds and has its effect, or returns  *)
(* an error and has none.  DeleteObject of a key that holds no object      *)
(* succeeds (S3 semantics); GetObject of such a key returns an error.      *)
(* created_at is not modelled: no handler reads it back.                   *)
(***************************************************************************)
EXTENDS Integers, Sequences, FiniteSets, TLC

\* ------------------------------------------------------------------ bounds
NProcs    == 2      \* requests that can be in flight at the same time
MaxId     == 2      \* createImage is not started once the serial passed it
MaxFaults == 1      \* store calls that return an injected error

Procs == 1..NProcs

\* ------------------------------------------------------------------ inputs
Filenames == {"a.png", "b.png"}
\* the files a client uploads: the bytes and the Content-Type of the part
\* (one declares its type, one does not)
Files     == {[body |-> <<1, 2, 3>>, contentType |-> "image/png"],
              [body |-> <<4>>,       contentType |-> ""]}
\* the multipart form: either no part named "image", or a file part
NoFile == [hasFile |-> FALSE, filename |-> "", body |-> <<>>, contentType |-> ""]
Forms  == {NoFile} \cup
          {[hasFile |-> TRUE, filename |-> n, body |-> f.body,
            contentType |-> f.contentType] : n \in Filenames, f \in Files}
          \cup
          \* a zero-byte file, and a file part whose filename is empty
          {[hasFile |-> TRUE, filename |-> "a.png", body |-> <<>>,
            contentType |-> "image/png"],
           [hasFile |-> TRUE, filename |-> "", body |-> <<1, 2, 3>>,
            contentType |-> "image/png"]}
\* what follows "/images/" or "/download/" in the path, as a string of characters
RawIds == {<<>>, <<"x">>, <<"1">>, <<"2">>}

\* the *http.Request handed to healthHandler: a request with its method, or
\* the nil pointer
NilRequest     == "<nil>"
HealthRequests == {NilRequest, "GET", "POST"}

\* ------------------------------------------------------------ HTTP statuses
StatusOK                  == 200
StatusNoContent           == 204
StatusBadRequest          == 400
StatusNotFound            == 404
StatusMethodNotAllowed    == 405
StatusInternalServerError == 500

VARIABLES
    rows,       \* table images: id -> [filename, size, object_key, content_type]
    nextId,     \* next value of the serial column id
    blobs,      \* bucket: key -> [body, contentType]
    pc,         \* per request slot: position in its handler
    req,        \* per request slot: the request being served
    local,      \* per request slot: the handler's local variables
    resp,       \* per request slot: the response written
    calls,      \* history: the store calls the request issued, in order
    faults,     \* history: number of store calls that returned an injected error
    deletedOk,  \* history: ids for which deleteImage answered 204
    uploaded,   \* history: id of a row -> the upload that inserted it
    lastPut     \* history: key of an object -> arguments of the PutObject
                \* applied to it last

vars == <<rows, nextId, blobs, pc, req, local, resp, calls, faults,
          deletedOk, uploaded, lastPut>>

stores == <<rows, nextId, blobs>>

\* ------------------------------------------------------------- small helpers
NoReq   == [op |-> "none", method |-> "", form |-> NoFile, raw |-> <<>>]
NoLocal == [imageID |-> 0, objectKey |-> "", id |-> 0, dbErr |-> "",
            intact |-> FALSE, afterDelete |-> FALSE, existed |-> FALSE,
            sawPut |-> <<>>, retryOf |-> ""]
NoResp  == [status |-> 0, msg |-> "", out |-> <<>>]

\* http.Error(w, msg, code)
HttpError(msg, code) == [status |-> code, msg |-> msg, out |-> <<>>]

Call(api, arg, ok) == [api |-> api, arg |-> arg, ok |-> ok]

InFlight(p) == pc[p] \notin {"idle", "done"}
Quiescent   == \A p \in Procs : ~InFlight(p)

\* a new request is served in the lowest free slot (the slots are
\* interchangeable)
Free(p) == pc[p] = "idle" /\ \A q \in Procs : q < p => pc[q] # "idle"

\* an injected store error is possible while the budget lasts
MayFail(fail) == fail => faults < MaxFaults

Fault(fail) == faults' = IF fail THEN faults + 1 ELSE faults


\* ------------------------------------------------------------ the two stores
\* The object key of an upload is the client's file name (Key and $3 of the
\* INSERT are both handler.Filename).
ObjectKeyOf(filename) == filename

\* (mutant) PutObject that keeps an object already at key
S3PutObject_IfNoneMatch(b, key, body, ct) ==
    [k \in DOMAIN b \cup {key} |->
        IF k \in DOMAIN b THEN b[k] ELSE [body |-> body, contentType |-> ct]]

\* s3Client.PutObject: the object at key is created or overwritten
S3PutObject(b, key, body, ct) ==
    [k \in DOMAIN b \cup {key} |->
        IF k = key THEN [body |-> body, contentType |-> ct] ELSE b[k]]

\* (mutant) DeleteObject answers success and leaves the object
S3DeleteObject_KeepsObject(b, key) == b

\* s3Client.DeleteObject: afterwards no object is at key
S3DeleteObject(b, key) == [k \in DOMAIN b \ {key} |-> b[k]]

\* (mutant) $3 and $4 of the INSERT swapped
RowOf_SwappedArgs(form) ==
    [filename     |-> form.filename,
     size         |-> Len(form.body),
     object_key   |-> form.contentType,
     content_type |-> ObjectKeyOf(form.filename)]

\* the row INSERT INTO images (...) VALUES ($1..$5) stores for an upload
RowOf(form) ==
    [filename     |-> form.filename,
     size         |-> Len(form.body),
     object_key   |-> ObjectKeyOf(form.filename),
     content_type |-> form.contentType]

InsertRow(r, id, form) ==
    [i \in DOMAIN r \cup {id} |-> IF i = id THEN RowOf(form) ELSE r[i]]

\* (mutant) the sequence does not advance
NextSerial_NoAdvance(n) == n

\* id serial PRIMARY KEY: every insert draws the next value of the sequence
NextSerial(n) == n + 1

\* (mutant) the DELETE matches no row
DeleteRow_NoMatch(r, id) == r

\* DELETE FROM images WHERE id=$1
DeleteRow(r, id) == [i \in DOMAIN r \ {id} |-> r[i]]

\* SELECT object_key FROM images WHERE id=$1, scanned: err is sql.ErrNoRows
\* when no row has the id, and the injected error when the query fails
SelectObjectKey(r, id, fail) ==
    IF fail THEN [err |-> "query failed", objectKey |-> ""]
    ELSE IF id \notin DOMAIN r THEN [err |-> "sql: no rows in result set", objectKey |-> ""]
    ELSE [err |-> "", objectKey |-> r[id].object_key]

\* strconv.Atoi on the characters after the path prefix (unsigned decimals
\* are all that RawIds needs)
DigitVal == [c \in {"0", "1", "2", "3", "4", "5", "6", "7", "8", "9"} |->
              CASE c = "0" -> 0 [] c = "1" -> 1 [] c = "2" -> 2 [] c = "3" -> 3
                [] c = "4" -> 4 [] c = "5" -> 5 [] c = "6" -> 6 [] c = "7" -> 7
                [] c = "8" -> 8 [] c = "9" -> 9]

RECURSIVE DecimalValue(_)
DecimalValue(s) ==
    IF s = <<>> THEN 0
    ELSE 10 * DecimalValue(SubSeq(s, 1, Len(s) - 1)) + DigitVal[s[Len(s)]]

Atoi(s) ==
    IF s # <<>> /\ \A i \in 1..Len(s) : s[i] \in DOMAIN DigitVal
    THEN [err |-> FALSE, val |-> DecimalValue(s)]
    ELSE [err |-> TRUE, val |-> 0]

\* ----------------------------------------------------- history bookkeeping
\* The blob at key k was written or deleted by request p: every upload of k
\* recorded so far, and every other upload of k still between its PutObject
\* and its INSERT, no longer owns the object at k.
TouchLocal(k, p, mine) ==
    [q \in Procs |->
        IF q = p THEN mine
        ELSE IF pc[q] = "insert" /\ ObjectKeyOf(req[q].form.filename) = k
             THEN [local[q] EXCEPT !.intact = FALSE]
             ELSE local[q]]

TouchUploaded(k) ==
    [i \in DOMAIN uploaded |->
        IF ObjectKeyOf(uploaded[i].filename) = k
        THEN [uploaded[i] EXCEPT !.intact = FALSE]
        ELSE uploaded[i]]

Respond(p, r) ==
    /\ resp' = [resp EXCEPT ![p] = r]
    /\ pc' = [pc EXCEPT ![p] = "done"]

Log(p, c) == calls' = [calls EXCEPT ![p] = Append(@, c)]


histories == <<deletedOk, uploaded, lastPut>>

\* ------------------------------------------------------------- createImage
\* r.FormFile("image") returns an error when the form has no file part named
\* image; mime/multipart keeps a part whose filename is empty as a plain
\* value, so it is no file part either
FormFileErr(form) == ~form.hasFile \/ form.filename = ""

\* r.FormFile("image") returned an error: 400, nothing else happens
CreateNoFile(p) ==
    /\ Respond(p, HttpError("Error retrieving file", StatusBadRequest))
    /\ local' = [local EXCEPT ![p] = NoLocal]
    /\ UNCHANGED <<stores, calls, histories>>

\* (mutant) the error of PutObject is logged but the handler does not return
CreatePutFailed_NoReturn(p, form) ==
    /\ pc' = [pc EXCEPT ![p] = "insert"]
    /\ Log(p, Call("PutObject", ObjectKeyOf(form.filename), FALSE))
    /\ local' = [local EXCEPT ![p] = NoLocal]
    /\ UNCHANGED <<stores, resp, histories>>

\* PutObject returned an error: 500 and return
CreatePutFailed(p, form) ==
    /\ Respond(p, HttpError("Failed to upload to S3", StatusInternalServerError))
    /\ Log(p, Call("PutObject", ObjectKeyOf(form.filename), FALSE))
    /\ local' = [local EXCEPT ![p] = NoLocal]
    /\ UNCHANGED <<stores, histories>>

\* PutObject stored the file under Key = handler.Filename with the part's
\* Content-Type; the handler goes on to the INSERT
CreatePutDone(p, form) ==
    LET key == ObjectKeyOf(form.filename) IN
    /\ blobs' = S3PutObject(blobs, key, form.body, form.contentType)
    /\ pc' = [pc EXCEPT ![p] = "insert"]
    /\ Log(p, Call("PutObject", key, TRUE))
    /\ local' = TouchLocal(key, p, [NoLocal EXCEPT !.intact = TRUE])
    /\ uploaded' = TouchUploaded(key)
    /\ lastPut' = [k \in DOMAIN lastPut \cup {key} |->
                     IF k = key THEN [body |-> form.body, contentType |-> form.contentType]
                     ELSE lastPut[k]]
    /\ UNCHANGED <<rows, nextId, resp, deletedOk>>

\* POST /images up to and including PutObject
CreateImage_Put(p, form, fail) ==
    /\ Free(p)
    /\ nextId <= MaxId
    /\ MayFail(fail)
    /\ fail => ~FormFileErr(form)
    /\ req' = [req EXCEPT ![p] = [op |-> "create", method |-> "POST", form |-> form, raw |-> <<>>]]
    /\ Fault(fail)
    /\ IF FormFileErr(form) THEN CreateNoFile(p)
       ELSE IF fail THEN CreatePutFailed(p, form)
       ELSE CreatePutDone(p, form)

\* (mutant) the error of the INSERT is not checked: 200 with id 0
CreateInsertFailed_Unchecked(p, burn) ==
    LET form == req[p].form IN
    /\ Respond(p, [status |-> StatusOK, msg |-> "",
                   out |-> [id           |-> 0,
                            filename     |-> form.filename,
                            size         |-> Len(form.body),
                            object_key   |-> ObjectKeyOf(form.filename),
                            content_type |-> form.contentType]])
    /\ Log(p, Call("Insert", 0, FALSE))
    /\ nextId' = IF burn THEN NextSerial(nextId) ELSE nextId
    /\ UNCHANGED <<rows, blobs, local, histories>>

\* the INSERT returned an error: 500 and return.  The sequence value the
\* statement drew may be lost (burn) or never drawn.
CreateInsertFailed(p, burn) ==
    /\ Respond(p, HttpError("Database insert failed", StatusInternalServerError))
    /\ Log(p, Call("Insert", 0, FALSE))
    /\ nextId' = IF burn THEN NextSerial(nextId) ELSE nextId
    /\ UNCHANGED <<rows, blobs, local, histories>>

\* the INSERT stored the row and returned its id: 200 with the record as JSON
CreateInsertDone(p) ==
    LET form == req[p].form
        id   == nextId
    IN
    /\ rows' = InsertRow(rows, id, form)
    /\ nextId' = NextSerial(nextId)
    /\ Respond(p, [status |-> StatusOK, msg |-> "",
                   out |-> [id           |-> id,
                            filename     |-> form.filename,
                            size         |-> Len(form.body),
                            object_key   |-> ObjectKeyOf(form.filename),
                            content_type |-> form.contentType]])
    /\ Log(p, Call("Insert", id, TRUE))
    /\ local' = [local EXCEPT ![p].id = id]
    /\ uploaded' = [i \in DOMAIN uploaded \cup {id} |->
                      IF i = id
                      THEN [filename |-> form.filename, body |-> form.body,
                            contentType |-> form.contentType,
                            intact |-> local[p].intact]
                      ELSE uploaded[i]]
    /\ UNCHANGED <<blobs, deletedOk, lastPut>>

\* POST /images from the INSERT to the response
CreateImage_Insert(p, fail, burn) ==
    /\ pc[p] = "insert"
    /\ MayFail(fail)
    /\ burn => fail
    /\ Fault(fail)
    /\ UNCHANGED req
    /\ IF fail THEN CreateInsertFailed(p, burn) ELSE CreateInsertDone(p)


\* ---------------------------------------- id parsing and row lookup (shared)
\* strings.TrimPrefix left nothing, or strconv.Atoi failed: 400
BadIdResponse(raw) ==
    IF raw = <<>>
    THEN HttpError("Image ID is required", StatusBadRequest)
    ELSE HttpError("Invalid Image ID", StatusBadRequest)

\* QueryRow(...).Scan(&objectKey) returned an error, whichever it is: 404
LookupFailed(p, id) ==
    /\ Respond(p, HttpError("Image not found", StatusNotFound))
    /\ Log(p, Call("Select", id, FALSE))

\* the handler's locals once the id is parsed; afterDelete records whether
\* deleteImage had already answered 204 for this id, existed whether the
\* table held a row with this id when the lookup ran
Parsed(id) ==
    [NoLocal EXCEPT !.imageID = id, !.afterDelete = (id \in deletedOk),
                    !.existed = (id \in DOMAIN rows)]

\* ------------------------------------------------------------- deleteImage
\* DELETE /images/{id} up to and including the lookup of the object key
DeleteImage_Lookup(p, raw, fail) ==
    LET a   == Atoi(raw)
        sel == SelectObjectKey(rows, a.val, fail)
    IN
    /\ Free(p)
    /\ MayFail(fail)
    /\ fail => ~a.err
    /\ req' = [req EXCEPT ![p] = [op |-> "delete", method |-> "DELETE", form |-> NoFile, raw |-> raw]]
    /\ Fault(fail)
    /\ UNCHANGED <<stores, histories>>
    /\ IF a.err
       THEN /\ Respond(p, BadIdResponse(raw))
            /\ local' = [local EXCEPT ![p] = NoLocal]
            /\ UNCHANGED calls
       ELSE IF sel.err # ""
       THEN /\ LookupFailed(p, a.val)
            /\ local' = [local EXCEPT ![p] = [Parsed(a.val) EXCEPT !.dbErr = sel.err]]
       ELSE /\ pc' = [pc EXCEPT ![p] = "delete_s3"]
            /\ Log(p, Call("Select", a.val, TRUE))
            /\ local' = [local EXCEPT ![p] =
                           [Parsed(a.val) EXCEPT !.objectKey = sel.objectKey]]
            /\ UNCHANGED resp

\* (mutant) the error of DeleteObject is logged but the handler goes on
DeleteS3Failed_NoReturn(p) ==
    /\ pc' = [pc EXCEPT ![p] = "delete_db"]
    /\ Log(p, Call("DeleteObject", local[p].objectKey, FALSE))
    /\ UNCHANGED <<stores, resp, local, histories>>

\* DeleteObject returned an error: 500 and return
DeleteS3Failed(p) ==
    /\ Respond(p, HttpError("Failed to delete from S3", StatusInternalServerError))
    /\ Log(p, Call("DeleteObject", local[p].objectKey, FALSE))
    /\ UNCHANGED <<stores, local, histories>>

\* DeleteObject removed the object; the handler goes on to the DELETE
DeleteS3Done(p) ==
    LET key == local[p].objectKey IN
    /\ blobs' = S3DeleteObject(blobs, key)
    /\ pc' = [pc EXCEPT ![p] = "delete_db"]
    /\ Log(p, Call("DeleteObject", key, TRUE))
    /\ local' = TouchLocal(key, p, local[p])
    /\ uploaded' = TouchUploaded(key)
    /\ lastPut' = [k \in DOMAIN lastPut \ {key} |-> lastPut[k]]
    /\ UNCHANGED <<rows, nextId, resp, deletedOk>>

\* (mutant) the object store answers NoSuchKey to DeleteObject of a missing key
DeleteImage_S3_NoSuchKey(p, fail) ==
    /\ pc[p] = "delete_s3"
    /\ MayFail(fail)
    /\ Fault(fail)
    /\ UNCHANGED req
    /\ IF fail \/ local[p].objectKey \notin DOMAIN blobs
       THEN DeleteS3Failed(p)
       ELSE DeleteS3Done(p)

\* DELETE /images/{id}: the DeleteObject call
DeleteImage_S3(p, fail) ==
    /\ pc[p] = "delete_s3"
    /\ MayFail(fail)
    /\ Fault(fail)
    /\ UNCHANGED req
    /\ IF fail THEN DeleteS3Failed(p) ELSE DeleteS3Done(p)

\* (mutant) the error of DELETE FROM images is not checked: 204
DeleteDbFailed_Unchecked(p) ==
    /\ Respond(p, [status |-> StatusNoContent, msg |-> "", out |-> <<>>])
    /\ Log(p, Call("Delete", local[p].imageID, FALSE))
    /\ UNCHANGED <<stores, local, histories>>

\* DELETE FROM images returned an error: 500 and return
DeleteDbFailed(p) ==
    /\ Respond(p, HttpError("Failed to delete from database", StatusInternalServerError))
    /\ Log(p, Call("Delete", local[p].imageID, FALSE))
    /\ UNCHANGED <<stores, local, histories>>

\* DELETE FROM images succeeded (also when it matched no row): 204
DeleteDbDone(p) ==
    /\ rows' = DeleteRow(rows, local[p].imageID)
    /\ Respond(p, [status |-> StatusNoContent, msg |-> "", out |-> <<>>])
    /\ Log(p, Call("Delete", local[p].imageID, TRUE))
    /\ deletedOk' = deletedOk \cup {local[p].imageID}
    /\ uploaded' = [i \in DOMAIN uploaded \ {local[p].imageID} |-> uploaded[i]]
    /\ UNCHANGED <<nextId, blobs, local, lastPut>>

\* DELETE /images/{id}: the DELETE statement and the response
DeleteImage_Db(p, fail) ==
    /\ pc[p] = "delete_db"
    /\ MayFail(fail)
    /\ Fault(fail)
    /\ UNCHANGED req
    /\ IF fail THEN DeleteDbFailed(p) ELSE DeleteDbDone(p)

\* ----------------------------------------------------------- downloadImage
\* GET /download/{id} up to and including the lookup of the object key
DownloadImage_Lookup(p, raw, fail) ==
    LET a   == Atoi(raw)
        sel == SelectObjectKey(rows, a.val, fail)
    IN
    /\ Free(p)
    /\ MayFail(fail)
    /\ fail => ~a.err
    /\ req' = [req EXCEPT ![p] = [op |-> "download", method |-> "GET", form |-> NoFile, raw |-> raw]]
    /\ Fault(fail)
    /\ UNCHANGED <<stores, histories>>
    /\ IF a.err
       THEN /\ Respond(p, BadIdResponse(raw))
            /\ local' = [local EXCEPT ![p] = NoLocal]
            /\ UNCHANGED calls
       ELSE IF sel.err # ""
       THEN /\ LookupFailed(p, a.val)
            /\ local' = [local EXCEPT ![p] = [Parsed(a.val) EXCEPT !.dbErr = sel.err]]
       ELSE /\ pc' = [pc EXCEPT ![p] = "get"]
            /\ Log(p, Call("Select", a.val, TRUE))
            /\ local' = [local EXCEPT ![p] =
                           [Parsed(a.val) EXCEPT !.objectKey = sel.objectKey]]
            /\ UNCHANGED resp

\* the Content-Type header: the object's content type unless it is empty
ContentTypeOut(ct) == IF ct # "" THEN ct ELSE "application/octet-stream"

\* GetObject returned an error (injected, or no object at the key): 500
DownloadGetFailed(p) ==
    /\ Respond(p, HttpError("Failed to download from S3", StatusInternalServerError))
    /\ Log(p, Call("GetObject", local[p].objectKey, FALSE))
    /\ UNCHANGED local

\* GetObject returned the object: 200, its bytes, Content-Type and
\* Content-Disposition: attachment; filename="<objectKey>"
DownloadGetDone(p) ==
    LET key == local[p].objectKey IN
    /\ Respond(p, [status |-> StatusOK, msg |-> "",
                   out |-> [bytes       |-> blobs[key].body,
                            contentType |-> ContentTypeOut(blobs[key].contentType),
                            filename    |-> key]])
    /\ Log(p, Call("GetObject", key, TRUE))
    /\ local' = [local EXCEPT ![p].sawPut = lastPut[key]]

\* (mutant) a download that finds no object at the key removes the row
DownloadImage_Get_DropsDanglingRow(p, fail) ==
    /\ pc[p] = "get"
    /\ MayFail(fail)
    /\ fail => local[p].objectKey \in DOMAIN blobs
    /\ Fault(fail)
    /\ rows' = IF local[p].objectKey \notin DOMAIN blobs
               THEN DeleteRow(rows, local[p].imageID)
               ELSE rows
    /\ UNCHANGED <<req, nextId, blobs, histories>>
    /\ IF fail \/ local[p].objectKey \notin DOMAIN blobs
       THEN DownloadGetFailed(p)
       ELSE DownloadGetDone(p)

\* GET /download/{id}: the GetObject call and the response
DownloadImage_Get(p, fail) ==
    /\ pc[p] = "get"
    /\ MayFail(fail)
    /\ fail => local[p].objectKey \in DOMAIN blobs
    /\ Fault(fail)
    /\ UNCHANGED <<req, stores, histories>>
    /\ IF fail \/ local[p].objectKey \notin DOMAIN blobs
       THEN DownloadGetFailed(p)
       ELSE DownloadGetDone(p)

\* -------------------------------------------------------------- listImages
RECURSIVE SortedIds_Descending(_)
\* (mutant) the query without its order by: rows come highest id first
SortedIds_Descending(S) ==
    IF S = {} THEN <<>>
    ELSE LET m == CHOOSE x \in S : \A y \in S : x >= y
         IN <<m>> \o SortedIds_Descending(S \ {m})

RECURSIVE SortedIds(_)
SortedIds(S) ==
    IF S = {} THEN <<>>
    ELSE LET m == CHOOSE x \in S : \A y \in S : x <= y
         IN <<m>> \o SortedIds(S \ {m})

\* select ... from images order by id, scanned row by row
QueryImages(r) ==
    LET ids == SortedIds(DOMAIN r) IN
    [n \in 1..Len(ids) |->
        [id           |-> ids[n],
         filename     |-> r[ids[n]].filename,
         size         |-> r[ids[n]].size,
         object_key   |-> r[ids[n]].object_key,
         content_type |-> r[ids[n]].content_type]]

\* json.Encode of var images []ImageMetadata: the slice stays nil when no
\* row was appended, and a nil slice encodes as null
EncodeImages(images) ==
    IF images = <<>> THEN [null |-> TRUE, items |-> <<>>]
    ELSE [null |-> FALSE, items |-> images]

\* GET /images
ListImages(p, fail) ==
    /\ Free(p)
    /\ MayFail(fail)
    /\ req' = [req EXCEPT ![p] = [op |-> "list", method |-> "GET", form |-> NoFile, raw |-> <<>>]]
    /\ Fault(fail)
    /\ local' = [local EXCEPT ![p] = NoLocal]
    /\ UNCHANGED <<stores, histories>>
    /\ IF fail
       THEN /\ Respond(p, HttpError("Failed to query database", StatusInternalServerError))
            /\ Log(p, Call("Query", 0, FALSE))
       ELSE /\ Respond(p, [status |-> StatusOK, msg |-> "",
                           out |-> EncodeImages(QueryImages(rows))])
            /\ Log(p, Call("Query", 0, TRUE))

\* ----------------------------------------------------------- healthHandler
\* r.Method read through a nil *http.Request: the handler panics before it
\* writes anything
NilDereference ==
    [status |-> 0, out |-> <<>>,
     msg |-> "panic: runtime error: invalid memory address or nil pointer dereference"]

\* w.WriteHeader(http.StatusOK) and the body
HealthOK == [status |-> StatusOK, msg |-> "", out |-> "System is Running (Standard Lib)"]

\* the response of healthHandler(w, r)
HealthResponse(r) ==
    IF r = NilRequest THEN NilDereference
    ELSE IF r # "GET" THEN HttpError("Method not allowed", StatusMethodNotAllowed)
    ELSE HealthOK

\* /health, or a direct call of healthHandler
HealthHandler(p, r) ==
    /\ Free(p)
    /\ req' = [req EXCEPT ![p] = [op |-> "health", method |-> r, form |-> NoFile,
                                  raw |-> <<>>]]
    /\ Respond(p, HealthResponse(r))
    /\ local' = [local EXCEPT ![p] = NoLocal]
    /\ UNCHANGED <<stores, calls, faults, histories>>

\* the handler returned and the response went out: the slot serves the next
\* request
Return(p) ==
    /\ pc[p] = "done"
    /\ pc' = [pc EXCEPT ![p] = "idle"]
    /\ req' = [req EXCEPT ![p] = NoReq]
    /\ local' = [local EXCEPT ![p] = NoLocal]
    /\ resp' = [resp EXCEPT ![p] = NoResp]
    /\ calls' = [calls EXCEPT ![p] = <<>>]
    /\ UNCHANGED <<stores, faults, histories>>

\* ------------------------------------------------------------ specification
\* after main: the table exists and is empty, the bucket exists and is empty
Init ==
    /\ rows = <<>>
    /\ nextId = 1
    /\ blobs = <<>>
    /\ pc = [p \in Procs |-> "idle"]
    /\ req = [p \in Procs |-> NoReq]
    /\ local = [p \in Procs |-> NoLocal]
    /\ resp = [p \in Procs |-> NoResp]
    /\ calls = [p \in Procs |-> <<>>]
    /\ faults = 0
    /\ deletedOk = {}
    /\ uploaded = <<>>
    /\ lastPut = <<>>

Next ==
    \E p \in Procs :
        \/ \E form \in Forms, fail \in BOOLEAN : CreateImage_Put(p, form, fail)
        \/ \E fail \in BOOLEAN, burn \in BOOLEAN : CreateImage_Insert(p, fail, burn)
        \/ \E raw \in RawIds, fail \in BOOLEAN : DeleteImage_Lookup(p, raw, fail)
        \/ \E fail \in BOOLEAN : DeleteImage_S3(p, fail)
        \/ \E fail \in BOOLEAN : DeleteImage_Db(p, fail)
        \/ \E raw \in RawIds, fail \in BOOLEAN : DownloadImage_Lookup(p, raw, fail)
        \/ \E fail \in BOOLEAN : DownloadImage_Get(p, fail)
        \/ \E fail \in BOOLEAN : ListImages(p, fail)
        \/ \E r \in HealthRequests : HealthHandler(p, r)
        \/ Return(p)

Spec == Init /\ [][Next]_vars

\* ------------------------------------------- a caller that retries deletes
\* The client of DELETE /images/{id} that got a 500 sends the same request
\* again until it is answered 204; while it does so a 404 does not stop it.
Retrying(p) ==
    /\ pc[p] = "done"
    /\ req[p].op = "delete"
    /\ \/ resp[p].status = StatusInternalServerError
       \/ resp[p].status = StatusNotFound /\ local[p].retryOf # ""

\* the store call the first failed attempt stopped at
FirstFailure(p) ==
    IF local[p].retryOf # "" THEN local[p].retryOf
    ELSE calls[p][Len(calls[p])].api

\* the retried DELETE /images/{id}, up to and including the lookup of the
\* object key
Retry(p, fail) ==
    LET id  == local[p].imageID
        sel == SelectObjectKey(rows, id, fail)
        loc == [Parsed(id) EXCEPT !.retryOf = FirstFailure(p)]
    IN
    /\ Retrying(p)
    /\ MayFail(fail)
    /\ Fault(fail)
    /\ calls' = [calls EXCEPT ![p] = <<Call("Select", id, sel.err = "")>>]
    /\ UNCHANGED <<req, stores, histories>>
    /\ IF sel.err # ""
       THEN /\ Respond(p, HttpError("Image not found", StatusNotFound))
            /\ local' = [local EXCEPT ![p] = [loc EXCEPT !.dbErr = sel.err]]
       ELSE /\ pc' = [pc EXCEPT ![p] = "delete_s3"]
            /\ resp' = [resp EXCEPT ![p] = NoResp]
            /\ local' = [local EXCEPT ![p] = [loc EXCEPT !.objectKey = sel.objectKey]]

\* every other client takes its response and goes
ReturnUnlessRetrying(p) == ~Retrying(p) /\ Return(p)

\* the uploads made while deletes are retried
RetryForms == {f \in Forms : f.hasFile /\ f.filename # "" /\ f.body # <<>>}

NextRetry ==
    \E p \in Procs :
        \/ \E form \in RetryForms, fail \in BOOLEAN : CreateImage_Put(p, form, fail)
        \/ \E fail \in BOOLEAN, burn \in BOOLEAN : CreateImage_Insert(p, fail, burn)
        \/ \E raw \in RawIds, fail \in BOOLEAN : DeleteImage_Lookup(p, raw, fail)
        \/ \E fail \in BOOLEAN : DeleteImage_S3(p, fail)
        \/ \E fail \in BOOLEAN : DeleteImage_Db(p, fail)
        \/ \E fail \in BOOLEAN : Retry(p, fail)
        \/ ReturnUnlessRetrying(p)

\* a delete in flight runs on and a retrying caller retries; the store calls
\* they make fail only while the fault budget lasts
DeleteProgress(p) ==
    \E fail \in BOOLEAN :
        \/ DeleteImage_S3(p, fail)
        \/ DeleteImage_Db(p, fail)
        \/ Retry(p, fail)

SpecRetry ==
    Init /\ [][NextRetry]_vars /\ \A p \in Procs : WF_vars(DeleteProgress(p))


\* ------------------------------------------------------------------ claims
Done(p, op) == pc[p] = "done" /\ req[p].op = op

Issued(p, api, ok) ==
    \E i \in DOMAIN calls[p] : calls[p][i].api = api /\ calls[p][i].ok = ok

KeyOfReq(p) == ObjectKeyOf(req[p].form.filename)

\* C1: a createImage whose INSERT failed after its PutObject succeeded has
\* issued a DeleteObject for the key it wrote before it answers, and it
\* answers with an error.
C1_CompensatingDelete ==
    \A p \in Procs :
        (Done(p, "create") /\ Issued(p, "PutObject", TRUE) /\ Issued(p, "Insert", FALSE))
        => /\ resp[p].status = StatusInternalServerError
           /\ \E i \in DOMAIN calls[p] :
                 calls[p][i].api = "DeleteObject" /\ calls[p][i].arg = KeyOfReq(p)

\* C2: when no store call has ever failed and no request is in flight,
\* every row of images has an object in the bucket at its object_key.
C2_NoDanglingRow ==
    (faults = 0 /\ Quiescent)
    => \A id \in DOMAIN rows : rows[id].object_key \in DOMAIN blobs

\* the only store call of request p is a PutObject that failed
C3_PutFailed(p) == calls[p] = <<Call("PutObject", KeyOfReq(p), FALSE)>>

\* C3: a createImage whose PutObject failed answers 500, has issued no
\* store call besides that PutObject (no INSERT), and the step in which it
\* failed leaves the table images and its sequence as they were.
C3_PutFailureNoRow ==
    /\ [](\A p \in Procs :
            (req[p].op = "create" /\ Issued(p, "PutObject", FALSE))
            => /\ pc[p] = "done"
               /\ resp[p].status = StatusInternalServerError
               /\ C3_PutFailed(p))
    /\ [][\A p \in Procs :
            (pc[p] = "idle" /\ req'[p].op = "create" /\ Issued(p, "PutObject", FALSE)')
            => (rows' = rows /\ nextId' = nextId /\ QueryImages(rows') = QueryImages(rows))]_vars

\* a createImage failed at PutObject while the table held a row
C3_Witness ==
    \E p \in Procs :
        /\ Done(p, "create") /\ C3_PutFailed(p)
        /\ resp[p].msg = "Failed to upload to S3"
        /\ rows # <<>>


\* C4 as stated: a download of a record that was in the table, with no store call ever failing,
\* answers 200 with the bytes of the record's upload and the content type
\* that upload declared.
C4_RoundTripAsStated ==
    \A p \in Procs :
        (/\ Done(p, "download") /\ faults = 0 /\ local[p].existed
         /\ local[p].imageID \in DOMAIN uploaded)
        => LET u == uploaded[local[p].imageID] IN
           /\ resp[p].status = StatusOK
           /\ resp[p].out.bytes = u.body
           /\ resp[p].out.contentType = u.contentType

\* C4 as amended: when no store call has failed and no other request has
\* written or deleted the object at the record's key since the PutObject of
\* the record's upload, a download of the record answers 200 with the bytes
\* of that upload, and with the declared content type when it is not empty
\* and application/octet-stream when it is.
C4_RoundTrip ==
    \A p \in Procs :
        (/\ Done(p, "download") /\ faults = 0 /\ local[p].existed
         /\ local[p].imageID \in DOMAIN uploaded
         /\ uploaded[local[p].imageID].intact)
        => LET u == uploaded[local[p].imageID] IN
           /\ resp[p].status = StatusOK
           /\ resp[p].out.bytes = u.body
           /\ resp[p].out.contentType =
                 (IF u.contentType # "" THEN u.contentType
                  ELSE "application/octet-stream")

\* a record uploaded without a content type, next to another record, was
\* downloaded
C4_Witness ==
    \E p \in Procs :
        /\ Done(p, "download") /\ faults = 0 /\ local[p].existed
        /\ local[p].imageID \in DOMAIN uploaded
        /\ uploaded[local[p].imageID].intact
        /\ uploaded[local[p].imageID].contentType = ""
        /\ resp[p].out.bytes = <<4>>
        /\ Cardinality(DOMAIN rows) >= 2

\* what C5 expects of the record of request p: the request's own fields
C5_RecordOf(p) ==
    [filename     |-> req[p].form.filename,
     size         |-> Len(req[p].form.body),
     object_key   |-> req[p].form.filename,
     content_type |-> req[p].form.contentType]

\* C5: a createImage whose INSERT failed answers with an error; one that
\* answers 200 has had its INSERT succeed, and the record it returns carries
\* the id of the inserted row, the file name, size = length of the payload,
\* object_key = file name and the declared content type, which are the
\* columns of the row that the INSERT step added under that id.
C5_SuccessOnlyIfInserted ==
    /\ [](\A p \in Procs :
            Done(p, "create") =>
              /\ Issued(p, "Insert", FALSE) => resp[p].status >= 400
              /\ ~Issued(p, "Insert", TRUE) => resp[p].status >= 400
              /\ resp[p].status = StatusOK =>
                   /\ Issued(p, "Insert", TRUE)
                   /\ calls[p][Len(calls[p])] = Call("Insert", resp[p].out.id, TRUE)
                   /\ [k \in DOMAIN C5_RecordOf(p) |-> resp[p].out[k]] = C5_RecordOf(p)
                   /\ resp[p].out.id \in DOMAIN rows
                        => rows[resp[p].out.id] = C5_RecordOf(p))
    /\ [][\A p \in Procs :
            (pc[p] = "insert" /\ resp'[p].status = StatusOK)
            => /\ resp'[p].out.id \notin DOMAIN rows
               /\ resp'[p].out.id \in DOMAIN rows'
               /\ rows'[resp'[p].out.id] = C5_RecordOf(p)]_vars

\* a createImage answered 200 and its row is in the table
C5_Witness ==
    \E p \in Procs :
        /\ Done(p, "create") /\ resp[p].status = StatusOK
        /\ resp[p].out.id \in DOMAIN rows
        /\ resp[p].out.size = 3

\* C6: once deleteImage has answered 204 for an id, the table holds no row
\* with that id, and every deleteImage or downloadImage of that id that
\* starts afterwards ends at the lookup with 404.
C6_DeletedStaysDeleted ==
    /\ deletedOk \cap DOMAIN rows = {}
    /\ \A p \in Procs :
          (req[p].op \in {"delete", "download"} /\ local[p].afterDelete)
          => /\ pc[p] = "done"
             /\ resp[p].status = StatusNotFound

\* after a 204 and a further upload, a second delete of the same id got 404
C6_Witness ==
    \E p \in Procs :
        /\ Done(p, "delete") /\ local[p].afterDelete
        /\ resp[p].status = StatusNotFound
        /\ rows # <<>>


\* C7: a deleteImage whose DeleteObject failed answers 500 and has issued
\* no DELETE FROM images, and the step in which it failed leaves the table
\* (what list and lookup read) and the bucket as they were.
C7_BlobDeleteFailureKeepsRow ==
    /\ [](\A p \in Procs :
            (req[p].op = "delete" /\ Issued(p, "DeleteObject", FALSE))
            => /\ pc[p] = "done"
               /\ resp[p].status = StatusInternalServerError
               /\ ~Issued(p, "Delete", TRUE) /\ ~Issued(p, "Delete", FALSE))
    /\ [][\A p \in Procs :
            (pc[p] = "delete_s3" /\ Issued(p, "DeleteObject", FALSE)')
            => /\ rows' = rows /\ blobs' = blobs
               /\ QueryImages(rows') = QueryImages(rows)
               /\ local[p].imageID \in DOMAIN rows
                    => SelectObjectKey(rows', local[p].imageID, FALSE).err = ""]_vars

\* a deleteImage failed at DeleteObject and the row it was to delete is there
C7_Witness ==
    \E p \in Procs :
        /\ Done(p, "delete") /\ Issued(p, "DeleteObject", FALSE)
        /\ resp[p].msg = "Failed to delete from S3"
        /\ local[p].imageID \in DOMAIN rows
        /\ rows[local[p].imageID].object_key \in DOMAIN blobs

\* C8: a deleteImage whose DELETE FROM images failed after its DeleteObject
\* succeeded answers 500, and that step leaves the row and the bucket as
\* they were (the row stays, the object stays deleted); a downloadImage that
\* found the row and finds no object at its key answers 500 "Failed to
\* download from S3" and changes neither store; a downloadImage answers 404
\* only when its lookup returned an error.
C8_RowDeleteFailureLeavesDanglingRow ==
    /\ [](\A p \in Procs :
            /\ (req[p].op = "delete" /\ Issued(p, "Delete", FALSE))
               => /\ pc[p] = "done"
                  /\ resp[p].status = StatusInternalServerError
                  /\ Issued(p, "DeleteObject", TRUE)
            /\ (Done(p, "download") /\ resp[p].status = StatusNotFound)
               => local[p].dbErr # "")
    /\ [][\A p \in Procs :
            /\ (pc[p] = "delete_db" /\ Issued(p, "Delete", FALSE)')
               => (rows' = rows /\ blobs' = blobs)
            /\ (pc[p] = "get" /\ pc'[p] = "done" /\ local[p].objectKey \notin DOMAIN blobs)
               => /\ resp'[p] = HttpError("Failed to download from S3",
                                          StatusInternalServerError)
                  /\ rows' = rows /\ blobs' = blobs]_vars

\* the DELETE of a deleteImage failed, the row is still there without its
\* object, and a downloadImage of the same id answered 500
C8_Witness ==
    \E p, q \in Procs :
        /\ Done(p, "delete") /\ Issued(p, "Delete", FALSE)
        /\ Done(q, "download") /\ local[q].imageID = local[p].imageID
        /\ resp[q].status = StatusInternalServerError
        /\ local[p].imageID \in DOMAIN rows
        /\ rows[local[p].imageID].object_key \notin DOMAIN blobs

\* C9: two createImage requests in flight together with the same file name
\* that both answer 200 return different ids and the same object_key, and
\* their rows carry that key; the bucket holds one object per key, whose
\* bytes are those of the PutObject applied to the key last; a downloadImage
\* that answers 200 returns the bytes of the PutObject applied last to the
\* key of its row.
C9_LastWriterWins ==
    /\ \A p, q \in Procs :
          (/\ p # q /\ Done(p, "create") /\ Done(q, "create")
           /\ resp[p].status = StatusOK /\ resp[q].status = StatusOK
           /\ req[p].form.filename = req[q].form.filename)
          => /\ resp[p].out.id # resp[q].out.id
             /\ resp[p].out.object_key = resp[q].out.object_key
             /\ \A i \in {resp[p].out.id, resp[q].out.id} \cap DOMAIN rows :
                   rows[i].object_key = KeyOfReq(p)
    /\ \A k \in DOMAIN blobs :
          /\ k \in DOMAIN lastPut
          /\ blobs[k].body = lastPut[k].body
    /\ \A p \in Procs :
          (Done(p, "download") /\ resp[p].status = StatusOK)
          => resp[p].out.bytes = local[p].sawPut.body

\* two uploads of one file name were in flight together, both answered 200,
\* and the object holds the bytes of the one whose row was inserted first
C9_Witness ==
    \E p, q \in Procs :
        /\ p # q /\ Done(p, "create") /\ Done(q, "create")
        /\ resp[p].status = StatusOK /\ resp[q].status = StatusOK
        /\ req[p].form.filename = req[q].form.filename
        /\ req[p].form.body # req[q].form.body
        /\ resp[q].out.id < resp[p].out.id
        /\ {resp[p].out.id, resp[q].out.id} \subseteq DOMAIN rows
        /\ blobs[KeyOfReq(q)].body = req[q].form.body

\* C10: a deleteImage or downloadImage whose lookup query itself failed
\* answers 500, and 404 is answered exactly when the table held no row with
\* the id.
C10_LookupErrorIsStoreError ==
    \A p \in Procs :
        (Done(p, "delete") \/ Done(p, "download"))
        => /\ local[p].dbErr = "query failed"
                => resp[p].status = StatusInternalServerError
           /\ resp[p].status = StatusNotFound => ~local[p].existed

\* C11: a listImages that answers 200 returns exactly the rows the table
\* holds when it runs, one record per row with the row's columns, in strictly
\* ascending id order; and every INSERT adds exactly one row, under an id
\* above every id in the table, so ascending id order is insertion order and
\* N successful creates with no delete give N records.
C11_ListIsTableInIdOrder ==
    [][\A p \in Procs :
         /\ (pc[p] = "idle" /\ req'[p].op = "list" /\ resp'[p].status = StatusOK)
            => LET items == resp'[p].out.items IN
               /\ Len(items) = Cardinality(DOMAIN rows)
               /\ {items[n].id : n \in 1..Len(items)} = DOMAIN rows
               /\ \A n \in 1..Len(items) :
                     /\ n > 1 => items[n - 1].id < items[n].id
                     /\ [k \in DOMAIN rows[items[n].id] |-> items[n][k]]
                           = rows[items[n].id]
         /\ (pc[p] = "insert" /\ resp'[p].status = StatusOK)
            => /\ DOMAIN rows' = DOMAIN rows \cup {resp'[p].out.id}
               /\ \A i \in DOMAIN rows : i < resp'[p].out.id /\ rows'[i] = rows[i]]_vars

\* after a delete, a list returned the two remaining rows, ids 2 and 3
C11_Witness ==
    \E p \in Procs :
        /\ Done(p, "list") /\ resp[p].status = StatusOK
        /\ Len(resp[p].out.items) = 2
        /\ resp[p].out.items[1].id = 2 /\ resp[p].out.items[2].id = 3
        /\ deletedOk = {1}

\* C12: a createImage whose form has no file, a zero-byte file or a file with
\* an empty name is answered with a 4xx and issues no store call: nothing is
\* written to the bucket and no row is inserted.
C12_InvalidUploadRejected ==
    \A p \in Procs :
        (/\ req[p].op = "create"
         /\ \/ ~req[p].form.hasFile
            \/ req[p].form.body = <<>>
            \/ req[p].form.filename = "")
        => /\ pc[p] = "done"
           /\ resp[p].status >= 400 /\ resp[p].status < 500
           /\ calls[p] = <<>>

\* C13: healthHandler called with a nil request, as its test calls it, or
\* with a GET request, completes with status 200, whatever the stores hold.
C13_HealthAnswers200 ==
    \A p \in Procs :
        (Done(p, "health") /\ req[p].method \in {NilRequest, "GET"})
        => resp[p].status = StatusOK

\* C14, the part of it that holds. When delete(id) was answered 500 (it
\* failed at DeleteObject or at the DELETE statement) and the caller keeps
\* retrying, with store calls failing only finitely often and DeleteObject of
\* a missing key succeeding, delete(id) is eventually answered 204. The step
\* that answers 204 leaves no row id, the DeleteObject step before it leaves no
\* object at the row's key, and an object appears at a key only by the
\* PutObject of an upload to that key. No step of a retry changes the stores
\* otherwise: it adds no row and no object, changes none, and removes at most
\* the row id and the object at the key its lookup found in row id.
C14_DeleteRetryable ==
    /\ \A p \in Procs, id \in 1..MaxId :
          (Done(p, "delete") /\ resp[p].status = StatusInternalServerError
               /\ local[p].imageID = id)
          ~> (id \in deletedOk /\ id \notin DOMAIN rows)
    /\ [][\A p \in Procs :
            /\ (pc[p] = "delete_db" /\ resp'[p].status = StatusNoContent)
               => local[p].imageID \notin DOMAIN rows'
            /\ (pc[p] = "delete_s3" /\ pc'[p] = "delete_db")
               => local[p].objectKey \notin DOMAIN blobs'
            /\ \A k \in DOMAIN blobs' \ DOMAIN blobs :
                  \E q \in Procs : /\ pc[q] = "idle"
                                   /\ pc'[q] = "insert"
                                   /\ ObjectKeyOf(req'[q].form.filename) = k
            /\ (calls'[p] # calls[p] /\ local'[p].retryOf # "")
               => LET id == local'[p].imageID IN
                  /\ nextId' = nextId
                  /\ DOMAIN rows' \subseteq DOMAIN rows
                  /\ DOMAIN rows \ DOMAIN rows' \subseteq {id}
                  /\ \A i \in DOMAIN rows' : rows'[i] = rows[i]
                  /\ DOMAIN blobs' \subseteq DOMAIN blobs
                  /\ \A k \in DOMAIN blobs \ DOMAIN blobs' :
                        local[p].existed /\ local[p].objectKey = k
                  /\ \A k \in DOMAIN blobs' : blobs'[k] = blobs[k]]_vars

\* a retry that followed a failed DELETE statement was answered 204: the
\* object was already gone when the retry called DeleteObject
C14_Witness ==
    \E p \in Procs :
        /\ Done(p, "delete")
        /\ resp[p].status = StatusNoContent
        /\ local[p].retryOf = "Delete"
        /\ local[p].imageID \in deletedOk
        /\ calls[p] = <<Call("Select", local[p].imageID, TRUE),
                        Call("DeleteObject", local[p].objectKey, TRUE),
                        Call("Delete", local[p].imageID, TRUE)>>

\* C14: delete is safely retryable: no retry of a failed delete(id) makes the
\* state worse than the failed attempt left it. A step of a retry leaves every
\* other record as it was: a row other than id whose object was in the bucket
\* before the step still has its object after it.
C14_NoRetryMakesStateWorse ==
    [][\A p \in Procs :
          (calls'[p] # calls[p] /\ local'[p].retryOf # "")
          => \A i \in DOMAIN rows \ {local'[p].imageID} :
                rows[i].object_key \in DOMAIN blobs
                => /\ i \in DOMAIN rows'
                   /\ rows'[i].object_key \in DOMAIN blobs']_vars

\* C15: requests that do not complete leave the stores alone. A delete of an
\* id with no row is answered 404 after the lookup alone; a delete or download
\* with an empty or non-integer id is answered 400 without a store call; no
\* step of a list or a download changes the table, the serial or the bucket,
\* also when the download finds a row whose object is missing.
C15_FailedRequestsMutateNothing ==
    [][\A p \in Procs :
          /\ (pc'[p] # pc[p] /\ req'[p].op \in {"list", "download"})
             => UNCHANGED stores
          /\ (pc[p] = "idle" /\ req'[p].op \in {"delete", "download"}
                /\ Atoi(req'[p].raw).err)
             => /\ UNCHANGED stores
                /\ resp'[p].status = StatusBadRequest
                /\ pc'[p] = "done"
                /\ calls'[p] = <<>>
          /\ (pc[p] = "idle" /\ req'[p].op = "delete"
                /\ ~Atoi(req'[p].raw).err
                /\ Atoi(req'[p].raw).val \notin DOMAIN rows)
             => /\ UNCHANGED stores
                /\ resp'[p] = HttpError("Image not found", StatusNotFound)
                /\ calls'[p] = <<Call("Select", Atoi(req'[p].raw).val, FALSE)>>]_vars

\* a download found a row whose object is missing (no store error injected),
\* was answered 500, and the dangling row is still there
C15_Witness ==
    \E p \in Procs :
        /\ Done(p, "download")
        /\ resp[p] = HttpError("Failed to download from S3", StatusInternalServerError)
        /\ faults = 0
        /\ local[p].imageID \in DOMAIN rows
        /\ rows[local[p].imageID].object_key \notin DOMAIN blobs

\* C16: a list on an empty table is answered with an empty JSON array, never
\* an error and never null: a list response with no record in it is not null.
C16_EmptyListIsArray ==
    \A p \in Procs :
        (Done(p, "list") /\ resp[p].status = StatusOK /\ resp[p].out.items = <<>>)
        => ~resp[p].out.null

\* C17: identifiers are never reused. Every id of a row, and every id whose
\* delete was answered 204, lies below the next value of the serial; the
\* serial never goes back; and the id a successful create returns is the
\* serial's next value, held by no row and by no deleted record, and the
\* serial moves past it.
C17_IdsNeverReused ==
    /\ [](\A id \in DOMAIN rows \cup deletedOk : id < nextId)
    /\ [][/\ nextId' >= nextId
          /\ \A p \in Procs :
                (pc[p] = "insert" /\ resp'[p].status = StatusOK)
                => LET id == resp'[p].out.id IN
                   /\ id = nextId
                   /\ id \notin DOMAIN rows \cup deletedOk
                   /\ id \in DOMAIN rows'
                   /\ nextId' > id]_vars

\* record 1 was deleted and a create was then answered 200 with id 2
C17_Witness ==
    \E p \in Procs :
        /\ Done(p, "create")
        /\ resp[p].status = StatusOK
        /\ resp[p].out.id = 2
        /\ local[p].id = 2
        /\ deletedOk = {1}
        /\ DOMAIN rows = {2}

\* C18: a download is answered with the stored contentType of the record it
\* names when that is not empty, and application/octet-stream otherwise, also
\* when several records share one object key and differ in content type.
C18_ContentTypeOfRecord ==
    \A p \in Procs :
        (Done(p, "download") /\ resp[p].status = StatusOK
            /\ local[p].imageID \in DOMAIN rows)
        => resp[p].out.contentType =
              ContentTypeOut(rows[local[p].imageID].content_type)

\* C19: without store failures no blob is orphaned at rest: when no store
\* call has failed and no request is in flight, every object in the bucket is
\* the object of some row.
C19_NoOrphanBlobAtRest ==
    (faults = 0 /\ Quiescent)
    => \A k \in DOMAIN blobs : \E id \in DOMAIN rows : rows[id].object_key = k

\* at rest after an upload and a delete, with a row and its object left
C19_Witness ==
    /\ faults = 0
    /\ Quiescent
    /\ deletedOk # {}
    /\ DOMAIN blobs # {}
    /\ \A k \in DOMAIN blobs : \E id \in DOMAIN rows : rows[id].object_key = k

====
